---- MODULE Spec2Model ----
(***************************************************************************)
(* WireLang core: the pin/node graph, the Schematic container, the        *)
(* topology builders (Series, Parallel, Circuit) and ground merging.      *)
(*                                                                         *)
(* A component is an index into ctype; a pin is <<component, index>>;     *)
(* pins made by Parallel (owned by no component) are <<0, k>>; a node is  *)
(* the number its constructor drew from nodeCounter.                      *)
(***************************************************************************)
EXTENDS Integers, Sequences, FiniteSets, TLC

VARIABLES
  ctype,     \* the components constructed so far: ctype[c] is the type of c
  w,         \* the heap and the container: pinNode, nodeCounter, vpins,
             \*   schematic (TRUE once a Schematic exists), components, nodes,
             \*   groundNode (the memoized ground node), named (nodes named GND),
             \*   label (each component's label)
  results,   \* the ConnectionResults returned by Series/Parallel so far
  last,      \* the last call: its name, arguments, return value, state before
  twin       \* the other call shape of the last Circuit call, on equal parts

vars == <<ctype, w, results, last, twin>>

\* ------------------------------------------------------------------ bounds
MaxLen == 3        \* items of one Series / Parallel call
MaxInner == 2      \* items of a builder call whose result is nested later
MaxFlat == 4       \* items of one flat Circuit call
MaxPaths == 2      \* paths of one multi-path Circuit call
MaxPathLen == 2    \* elements of one path
MaxNodes == 2      \* nodes created for a hand-built Schematic
MaxCalls == 2      \* ground passes run on a hand-built Schematic

\* ------------------------------------------------------------ pins, nodes
NoNode == 0            \* Pin._node === null
NoPin == <<0, 0>>      \* undefined (pins[1] of a one-pin component)

\* the pins each variant's createPins() makes, by name, in order
PinNames(t) ==
  CASE t = "resistor" -> <<"1", "2">>
    [] t = "voltage_source" -> <<"positive", "negative">>
    [] t = "current_source" -> <<"positive", "negative">>
    [] t = "ground" -> <<"gnd">>
    [] t = "power_rail" -> <<"out">>
    [] t = "npn" -> <<"B", "C", "E">>

Comps == DOMAIN ctype
PinsOf(c) == {<<c, i>> : i \in DOMAIN PinNames(ctype[c])}
CompPins == UNION {PinsOf(c) : c \in Comps}
PinName(p) == PinNames(ctype[p[1]])[p[2]]

\* pins[i], undefined past the end of the array
PinAt(c, i) == IF i \in DOMAIN PinNames(ctype[c]) THEN <<c, i>> ELSE NoPin

IsSource(c) == ctype[c] \in {"voltage_source", "current_source"}

\* p1: pins[0]; a source answers with .negative (pins[1])
P1(c) == IF IsSource(c) THEN PinAt(c, 2) ELSE PinAt(c, 1)

\* p2: pins[1]; a source answers with .positive (pins[0]); PowerRail overrides
\* it to pins[0]; Ground inherits pins[1] of a one-pin array, which is undefined
P2Unswapped(c) == IF ctype[c] = "power_rail" THEN PinAt(c, 1) ELSE PinAt(c, 2)
P2(c) ==
  IF IsSource(c) \/ ctype[c] = "power_rail" THEN PinAt(c, 1) ELSE PinAt(c, 2)

\* Pin.component: the owner, null for a pin made outside a component
Owner(p) == p[1]

\* ------------------------------------------------------ strings, ids, labels
\* a string is the sequence of its characters; undefined is no string
Undefined == <<"(undefined)">>

Letters ==
  {"A", "B", "C", "D", "E", "F", "G", "H", "I", "J", "K", "L", "M", "N",
   "O", "P", "Q", "R", "S", "T", "U", "V", "W", "X", "Y", "Z", "a", "b",
   "c", "d", "e", "f", "g", "h", "i", "j", "k", "l", "m", "n", "o", "p",
   "q", "r", "s", "t", "u", "v", "w", "x", "y", "z"}

Digit == {"0", "1", "2", "3", "4", "5", "6", "7", "8", "9"}

\* the decimal digits of a counter, as `${n}` writes them
RECURSIVE Digits(_)
Digits(n) == IF n < 10 THEN <<ToString(n)>> ELSE Digits(n \div 10) \o <<ToString(n % 10)>>

\* the variant tags, spelt out
Spell(t) ==
  CASE t = "resistor" -> <<"r", "e", "s", "i", "s", "t", "o", "r">>
    [] t = "voltage_source" -> <<"v", "o", "l", "t", "a", "g", "e", "_", "s", "o", "u", "r", "c", "e">>
    [] t = "current_source" -> <<"c", "u", "r", "r", "e", "n", "t", "_", "s", "o", "u", "r", "c", "e">>
    [] t = "ground" -> <<"g", "r", "o", "u", "n", "d">>
    [] t = "power_rail" -> <<"p", "o", "w", "e", "r", "_", "r", "a", "i", "l">>
    [] t = "npn" -> <<"n", "p", "n">>


\* Component.id: `${type}_${++componentCounter}`
componentId(c) == Spell(ctype[c]) \o <<"_">> \o Digits(c)

\* Pin.id: `pin_${++pinCounter}`; the pins of a component are made in order
RECURSIVE PinsBefore(_)
PinsBefore(c) == IF c = 1 THEN 0 ELSE PinsBefore(c - 1) + Len(PinNames(ctype[c - 1]))
pinId(k) == <<"p", "i", "n", "_">> \o Digits(k)

\* Node.id: `node_${++nodeCounter}`
nodeId(n) == <<"n", "o", "d", "e", "_">> \o Digits(n)

\* getTypePrefix(): R, V, I, GND, Q; U for a tag the switch does not list
getTypePrefix(t) ==
  CASE t = "resistor" -> <<"R">>
    [] t = "voltage_source" -> <<"V">>
    [] t = "current_source" -> <<"I">>
    [] t = "ground" -> <<"G", "N", "D">>
    [] t = "npn" -> <<"Q">>
    [] OTHER -> <<"U">>

\* new PowerRail(voltage, name = 'VCC'): the rail name when none is given; the
\* constructor hands the rail name on as the label
railName == <<"V", "C", "C">>

\* Component.label: the label given to the constructor, else the prefix and
\* the count of unlabelled components of that prefix made so far
Labels(given) ==
  [c \in Comps |->
     IF given[c] # Undefined THEN given[c]
     ELSE IF ctype[c] = "power_rail" THEN railName
     ELSE getTypePrefix(ctype[c]) \o
          Digits(Cardinality({d \in 1..c : /\ given[d] = Undefined
                                           /\ getTypePrefix(ctype[d]) =
                                                getTypePrefix(ctype[c])}))]

Fresh ==
  [pinNode |-> [p \in CompPins |-> NoNode], nodeCounter |-> 0, vpins |-> 0,
   schematic |-> FALSE, components |-> <<>>, nodes |-> <<>>,
   groundNode |-> NoNode, named |-> {},
   label |-> Labels([c \in Comps |-> Undefined])]

\* new Node(): draws the next id
NewNode(s) == [s EXCEPT !.nodeCounter = @ + 1]

\* Pin.connectTo(node): overwrites whatever was bound
connectToIfFree(s, p, n) ==
  IF s.pinNode[p] = NoNode THEN [s EXCEPT !.pinNode[p] = n] ELSE s
connectTo(s, p, n) == [s EXCEPT !.pinNode[p] = n]

\* Pin.disconnect()
disconnect(s, p) == [s EXCEPT !.pinNode[p] = NoNode]

isConnected(s, p) == s.pinNode[p] # NoNode
isConnectedTo(s, p, n) == s.pinNode[p] = n

\* new Pin(name) outside a component: the next free virtual pin, unconnected
NewPin(s) ==
  [s EXCEPT !.vpins = @ + 1,
            !.pinNode = [p \in DOMAIN s.pinNode \cup {<<0, s.vpins + 1>>} |->
                           IF p \in DOMAIN s.pinNode THEN s.pinNode[p] ELSE NoNode]]

\* ------------------------------------------------------------ connectables
Comp(c) == [kind |-> "component", ref |-> c]
RawPin(p) == [kind |-> "pin", ref |-> p]
Nested(r) == [kind |-> "result", ref |-> r]

getTerminals(item) ==
  IF item.kind = "pin"
    THEN [first |-> item.ref, last |-> item.ref, components |-> <<>>, nodes |-> <<>>]
  ELSE IF item.kind = "component"
    THEN [first |-> P1(item.ref), last |-> P2(item.ref),
          components |-> <<item.ref>>, nodes |-> <<>>]
  ELSE [first |-> item.ref.firstPin, last |-> item.ref.lastPin,
        components |-> item.ref.components, nodes |-> item.ref.nodes]

\* -------------------------------------------------------------------- Series
\* one round of the for loop; acc carries the heap and the four locals
SeriesStep(acc, item, i) ==
  LET t == getTerminals(item)
      join == i > 1 /\ acc.lastPin # NoPin
      node == acc.s.nodeCounter + 1
      s1 == IF join
              THEN connectTo(connectTo(NewNode(acc.s), acc.lastPin, node), t.first, node)
              ELSE acc.s
  IN [s |-> s1,
      components |-> acc.components \o t.components,
      nodes |-> (acc.nodes \o t.nodes) \o (IF join THEN <<node>> ELSE <<>>),
      firstPin |-> IF i = 1 THEN t.first ELSE acc.firstPin,
      lastPin |-> t.last]

RECURSIVE SeriesLoop(_, _, _)
SeriesLoop(acc, items, i) ==
  IF i > Len(items) THEN acc
  ELSE SeriesLoop(SeriesStep(acc, items[i], i), items, i + 1)

\* Series(...items): [s: the heap after, threw, result]
Series(s, items) ==
  IF Len(items) = 0
    THEN [s |-> s, threw |-> TRUE, result |-> <<>>]
  ELSE LET a == SeriesLoop([s |-> s, components |-> <<>>, nodes |-> <<>>,
                            firstPin |-> NoPin, lastPin |-> NoPin], items, 1)
       IN [s |-> a.s, threw |-> FALSE,
           result |-> [components |-> a.components, nodes |-> a.nodes,
                       firstPin |-> a.firstPin, lastPin |-> a.lastPin]]

\* ------------------------------------------------------------------ Parallel
\* one round of the for loop; terminals.last.connectTo throws on undefined
ParallelStepOneRail(acc, item, startNode, endNode) ==
  LET t == getTerminals(item)
      s1 == connectTo(acc.s, t.first, startNode)
  IN IF acc.threw THEN acc
     ELSE IF t.last = NoPin
       THEN [acc EXCEPT !.s = s1, !.threw = TRUE]
     ELSE [s |-> connectTo(s1, t.last, startNode),
           threw |-> FALSE,
           components |-> acc.components \o t.components,
           nodes |-> acc.nodes \o t.nodes]
ParallelStep(acc, item, startNode, endNode) ==
  LET t == getTerminals(item)
      s1 == connectTo(acc.s, t.first, startNode)
  IN IF acc.threw THEN acc
     ELSE IF t.last = NoPin
       THEN [acc EXCEPT !.s = s1, !.threw = TRUE]
     ELSE [s |-> connectTo(s1, t.last, endNode),
           threw |-> FALSE,
           components |-> acc.components \o t.components,
           nodes |-> acc.nodes \o t.nodes]

RECURSIVE ParallelLoop(_, _, _, _, _)
ParallelLoop(acc, items, i, startNode, endNode) ==
  IF i > Len(items) THEN acc
  ELSE ParallelLoop(ParallelStep(acc, items[i], startNode, endNode),
                    items, i + 1, startNode, endNode)

\* Parallel(...items): [s, threw, result]
Parallel(s, items) ==
  IF Len(items) = 0
    THEN [s |-> s, threw |-> TRUE, result |-> <<>>]
  ELSE LET startNode == s.nodeCounter + 1
           endNode == s.nodeCounter + 2
           a == ParallelLoop([s |-> NewNode(NewNode(s)), threw |-> FALSE,
                              components |-> <<>>, nodes |-> <<startNode, endNode>>],
                             items, 1, startNode, endNode)
           firstPin == <<0, a.s.vpins + 1>>
           lastPin == <<0, a.s.vpins + 2>>
           s2 == connectTo(connectTo(NewPin(NewPin(a.s)), firstPin, startNode),
                           lastPin, endNode)
       IN IF a.threw
            THEN [s |-> a.s, threw |-> TRUE, result |-> <<>>]
          ELSE [s |-> s2, threw |-> FALSE,
                result |-> [components |-> a.components, nodes |-> a.nodes,
                            firstPin |-> firstPin, lastPin |-> lastPin]]

\* ------------------------------------------------------------------ junction
\* junction(...pins): one new node for all the pins; [s, threw, node]
junctionOfAny(s, pins) ==
  LET node == s.nodeCounter + 1
  IN [s |-> [NewNode(s) EXCEPT !.pinNode =
               [p \in DOMAIN @ |-> IF p \in {pins[i] : i \in DOMAIN pins} THEN node ELSE @[p]]],
      threw |-> FALSE, node |-> node]
junction(s, pins) ==
  LET node == s.nodeCounter + 1
  IN IF Len(pins) < 2
       THEN [s |-> s, threw |-> TRUE, node |-> NoNode]
     ELSE [s |-> [NewNode(s) EXCEPT !.pinNode =
                    [p \in DOMAIN @ |->
                       IF p \in {pins[i] : i \in DOMAIN pins} THEN node ELSE @[p]]],
           threw |-> FALSE, node |-> node]

\* ------------------------------------------------------------------ Schematic
Range(f) == {f[i] : i \in DOMAIN f}

\* new Schematic(name): no components, no nodes, no ground node yet
NewSchematic(s) ==
  [s EXCEPT !.schematic = TRUE, !.components = <<>>, !.nodes = <<>>,
            !.groundNode = NoNode]

addComponent(s, c) == [s EXCEPT !.components = Append(@, c)]

\* createNode(name?): a new node, registered
createNode(s) == [NewNode(s) EXCEPT !.nodes = Append(@, s.nodeCounter + 1)]

\* addNode(node): registered unless already there
addNode(s, n) == IF n \in Range(s.nodes) THEN s ELSE [s EXCEPT !.nodes = Append(@, n)]

\* connect(pin, node): binds and registers
connect(s, p, n) == addNode(connectTo(s, p, n), n)

RECURSIVE addComponents(_, _)
addComponents(s, cs) ==
  IF cs = <<>> THEN s ELSE addComponents(addComponent(s, Head(cs)), Tail(cs))

RECURSIVE addNodes(_, _)
addNodes(s, ns) ==
  IF ns = <<>> THEN s ELSE addNodes(addNode(s, Head(ns)), Tail(ns))

\* applyToCircuit(schematic, result)
applyToCircuit(s, result) == addNodes(addComponents(s, result.components), result.nodes)

\* the pins of the registered components bound to node, and the unbound ones
getPinsAtNode(s, n) ==
  {p \in CompPins : Owner(p) \in Range(s.components) /\ isConnectedTo(s, p, n)}
getUnconnectedPins(s) ==
  {p \in CompPins : Owner(p) \in Range(s.components) /\ ~isConnected(s, p)}

\* --------------------------------------------------------------- mergeGrounds
IsGround(c) == ctype[c] = "ground"
groundComponents(s) == SelectSeq(s.components, IsGround)

\* the two nested for loops: every pin of every registered component that is
\* bound to oldNode is disconnected and connected to masterNode
MovePinsDisconnectOnly(s, oldNode, masterNode) ==
  [s EXCEPT !.pinNode =
     [p \in DOMAIN @ |->
        IF Owner(p) \in Range(s.components) /\ @[p] = oldNode
          THEN NoNode ELSE @[p]]]
MovePins(s, oldNode, masterNode) ==
  [s EXCEPT !.pinNode =
     [p \in DOMAIN @ |->
        IF Owner(p) \in Range(s.components) /\ @[p] = oldNode
          THEN masterNode ELSE @[p]]]

\* indexOf + splice: the first occurrence goes
RemoveNodeNever(ns, n) == ns
RemoveNode(ns, n) ==
  IF n \notin Range(ns) THEN ns
  ELSE LET k == CHOOSE i \in DOMAIN ns : ns[i] = n /\ \A j \in 1..(i - 1) : ns[j] # n
       IN SubSeq(ns, 1, k - 1) \o SubSeq(ns, k + 1, Len(ns))

\* one round of the loop over groundComponents[1..]
MergeStep(s, g, masterNode) ==
  LET gndPin == PinAt(g, 1)
      oldNode == s.pinNode[gndPin]
  IN IF isConnected(s, gndPin)
       THEN [MovePins(s, oldNode, masterNode) EXCEPT !.nodes = RemoveNode(@, oldNode)]
     ELSE connectTo(s, gndPin, masterNode)

RECURSIVE MergeLoop(_, _, _, _)
MergeLoop(s, gs, i, masterNode) ==
  IF i > Len(gs) THEN s
  ELSE MergeLoop(MergeStep(s, gs[i], masterNode), gs, i + 1, masterNode)

mergeGrounds(s) ==
  LET gs == groundComponents(s)
      masterPin == PinAt(gs[1], 1)
  IN IF Len(gs) <= 1 THEN s
     ELSE IF ~isConnected(s, masterPin) THEN s
     ELSE MergeLoop(s, gs, 2, s.pinNode[masterPin])

\* --------------------------------------------------------- autoConnectGrounds
\* source.pins.find(p => p.name === 'negative'), NoPin when there is none
negativePinFirst(c) == PinAt(c, 1)
negativePin(c) ==
  LET ps == {p \in PinsOf(c) : PinName(p) = "negative"}
  IN IF ps = {} THEN NoPin ELSE CHOOSE p \in ps : \A q \in ps : p[2] <= q[2]

RECURSIVE ConnectSourcesUnlisted(_, _, _, _)
ConnectSourcesUnlisted(acc, cs, i, gndNode) ==
  IF i > Len(cs) THEN acc
  ELSE LET np == negativePin(cs[i])
       IN IF np # NoPin /\ ~isConnected(acc.s, np)
            THEN ConnectSourcesUnlisted([acc EXCEPT !.s = connectTo(acc.s, np, gndNode)],
                                        cs, i + 1, gndNode)
          ELSE ConnectSourcesUnlisted(acc, cs, i + 1, gndNode)

RECURSIVE ConnectSources(_, _, _, _)
ConnectSources(acc, cs, i, gndNode) ==
  IF i > Len(cs) THEN acc
  ELSE LET np == negativePin(cs[i])
       IN IF np # NoPin /\ ~isConnected(acc.s, np)
            THEN ConnectSources([acc EXCEPT !.s = connectTo(acc.s, np, gndNode),
                                            !.connected = Append(@, np)],
                                cs, i + 1, gndNode)
          ELSE ConnectSources(acc, cs, i + 1, gndNode)

\* autoConnectGrounds(): [s, connected, warnings]
autoConnectGroundsSilent(s0) ==
  LET s == mergeGrounds(s0)
      gs == groundComponents(s)
      gndPin == PinAt(gs[1], 1)
      sources == SelectSeq(s.components, IsSource)
  IN IF Len(gs) = 0
       THEN ConnectSources([s |-> s, connected |-> <<>>, warnings |-> <<>>],
                           sources, 1, s.nodeCounter)
     ELSE IF ~isConnected(s, gndPin)
       THEN [s |-> s, connected |-> <<>>, warnings |-> <<"GND component is not connected to any node">>]
     ELSE ConnectSources([s |-> s, connected |-> <<>>, warnings |-> <<>>],
                         sources, 1, s.pinNode[gndPin])
autoConnectGrounds(s0) ==
  LET s == mergeGrounds(s0)
      gs == groundComponents(s)
      gndPin == PinAt(gs[1], 1)
      sources == SelectSeq(s.components, IsSource)
  IN IF Len(gs) = 0
       THEN [s |-> s, connected |-> <<>>, warnings |-> <<"No GND component found - cannot auto-connect source negatives">>]
     ELSE IF ~isConnected(s, gndPin)
       THEN [s |-> s, connected |-> <<>>, warnings |-> <<"GND component is not connected to any node">>]
     ELSE ConnectSources([s |-> s, connected |-> <<>>, warnings |-> <<>>],
                         sources, 1, s.pinNode[gndPin])

\* ---------------------------------------------------------------- connectPath
getOutputPin(item) ==
  IF item.kind = "pin" THEN item.ref
  ELSE IF item.kind = "component" THEN P2(item.ref)
  ELSE item.ref.lastPin

getInputPin(item) ==
  IF item.kind = "pin" THEN item.ref
  ELSE IF item.kind = "component" THEN P1(item.ref)
  ELSE item.ref.firstPin

\* the first loop: the components and nodes each element brings
RECURSIVE CollectPath(_, _, _)
CollectPath(acc, path, i) ==
  IF i > Len(path) THEN acc
  ELSE LET item == path[i]
       IN CollectPath(
            IF item.kind = "component"
              THEN [acc EXCEPT !.components = Append(@, item.ref)]
            ELSE IF item.kind = "pin"
              THEN IF Owner(item.ref) \in Comps
                     THEN [acc EXCEPT !.components = Append(@, Owner(item.ref))]
                   ELSE acc
            ELSE [acc EXCEPT !.components = @ \o item.ref.components,
                             !.nodes = @ \o item.ref.nodes],
            path, i + 1)

\* one round of the second loop: the node is the out pin's, else the in pin's,
\* else a new one; outPin.isConnected() throws when outPin is undefined
ConnectPairFreshNode(acc, outPin, inPin) ==
  LET node == acc.s.nodeCounter + 1
      s1 == connectTo(connectTo(NewNode(acc.s), outPin, node), inPin, node)
  IN IF outPin = NoPin THEN [acc EXCEPT !.threw = TRUE]
     ELSE [acc EXCEPT !.s = s1, !.nodes = Append(@, node)]
ConnectPair(acc, outPin, inPin) ==
  LET reuseOut == isConnected(acc.s, outPin)
      reuseIn == ~reuseOut /\ isConnected(acc.s, inPin)
      mint == ~reuseOut /\ ~reuseIn
      node == IF reuseOut THEN acc.s.pinNode[outPin]
              ELSE IF reuseIn THEN acc.s.pinNode[inPin]
              ELSE acc.s.nodeCounter + 1
      s1 == IF mint THEN NewNode(acc.s) ELSE acc.s
      s2 == IF ~isConnectedTo(s1, outPin, node) THEN connectTo(s1, outPin, node) ELSE s1
      s3 == IF ~isConnectedTo(s2, inPin, node) THEN connectTo(s2, inPin, node) ELSE s2
  IN IF outPin = NoPin THEN [acc EXCEPT !.threw = TRUE]
     ELSE [acc EXCEPT !.s = s3,
                      !.nodes = IF mint THEN Append(@, node) ELSE @]

RECURSIVE ConnectAdjacent(_, _, _)
ConnectAdjacent(acc, path, i) ==
  IF i > Len(path) - 1 \/ acc.threw THEN acc
  ELSE ConnectAdjacent(ConnectPair(acc, getOutputPin(path[i]), getInputPin(path[i + 1])),
                       path, i + 1)

\* connectPath(path): [s, threw, components, nodes]
connectPath(s, path) ==
  ConnectAdjacent(
    CollectPath([s |-> s, threw |-> FALSE, components |-> <<>>, nodes |-> <<>>], path, 1),
    path, 1)

\* -------------------------------------------------------------------- Circuit
\* components.forEach: added unless the Set addedComponents has it
RECURSIVE AddUnseen(_, _)
AddEvery(acc, cs) ==
  [acc EXCEPT !.s = addComponents(acc.s, cs), !.added = @ \cup Range(cs)]
AddUnseen(acc, cs) ==
  IF cs = <<>> THEN acc
  ELSE AddUnseen(
         IF Head(cs) \in acc.added THEN acc
         ELSE [acc EXCEPT !.added = @ \cup {Head(cs)},
                          !.s = addComponent(acc.s, Head(cs))],
         Tail(cs))

\* the loop over the paths; a throw of connectPath ends it
RECURSIVE PathsLoop(_, _, _)
PathsLoop(acc, paths, i) ==
  IF i > Len(paths) \/ acc.threw THEN acc
  ELSE LET r == connectPath(acc.s, paths[i])
           a1 == AddUnseen([acc EXCEPT !.s = r.s], r.components)
       IN IF r.threw THEN [acc EXCEPT !.s = r.s, !.threw = TRUE]
          ELSE PathsLoop([a1 EXCEPT !.s = addNodes(a1.s, r.nodes)], paths, i + 1)

\* what a call that threw leaves: the heap as mutated, the caller's container
Thrown(s0, s) ==
  [s EXCEPT !.schematic = s0.schematic, !.components = s0.components,
            !.nodes = s0.nodes, !.groundNode = s0.groundNode]

\* Circuit(name, options?, paths): [s, threw]
CircuitPaths(s, paths, autoGround) ==
  LET a == PathsLoop([s |-> NewSchematic(s), threw |-> FALSE, added |-> {}], paths, 1)
  IN IF a.threw THEN [s |-> Thrown(s, a.s), threw |-> TRUE]
     ELSE [s |-> IF autoGround THEN autoConnectGrounds(a.s).s ELSE a.s,
           threw |-> FALSE]

\* Circuit(name, options?, ...items): [s, threw]
CircuitFlat(s, items, autoGround) ==
  LET r == Series(s, items)
      s1 == applyToCircuit(NewSchematic(r.s), r.result)
  IN IF r.threw THEN [s |-> Thrown(s, r.s), threw |-> TRUE]
     ELSE [s |-> IF autoGround THEN autoConnectGrounds(s1).s ELSE s1,
           threw |-> FALSE]

\* ------------------------------------------------------ the builders, called
\* the parts a builder expression is written over
BuilderParts == <<"resistor", "resistor", "ground">>

Lists(S, n) == UNION {[1..k -> S] : k \in 0..n}

\* what a caller can pass: a component, one of its pins, an earlier result
Leaves == {Comp(c) : c \in Comps} \cup {RawPin(p) : p \in CompPins}
Connectables == Leaves \cup {Nested(r) : r \in Range(results)}

NoCall == [op |-> "none", n |-> 0, threw |-> FALSE]

Init ==
  /\ ctype = BuilderParts
  /\ w = Fresh
  /\ results = <<>>
  /\ last = NoCall
  /\ twin = <<>>

Called(op, items, r) ==
  [op |-> op, n |-> last.n + 1, items |-> items, before |-> w,
   threw |-> r.threw, result |-> r.result]

\* A builder expression: one call over leaves, or an inner call over at most
\* MaxInner whole components followed by the outer call that nests its result.
Nestable ==
  /\ last.n = 1 /\ ~last.threw
  /\ Len(last.items) <= MaxInner
  /\ \A i \in DOMAIN last.items : last.items[i].kind = "component"

MayBuild == last.n = 0 \/ Nestable

BuilderArgs ==
  IF last.n = 0 THEN Lists(Leaves, MaxLen)
  ELSE {l \in Lists(Connectables, MaxLen) : \E i \in DOMAIN l : l[i].kind = "result"}

SeriesCall(items) ==
  LET r == Series(w, items)
  IN /\ w' = r.s
     /\ results' = IF r.threw THEN results ELSE Append(results, r.result)
     /\ last' = Called("Series", items, r)
     /\ UNCHANGED <<ctype, twin>>

ParallelCall(items) ==
  LET r == Parallel(w, items)
  IN /\ w' = r.s
     /\ results' = IF r.threw THEN results ELSE Append(results, r.result)
     /\ last' = Called("Parallel", items, r)
     /\ UNCHANGED <<ctype, twin>>

\* junction(...pins) on pins of the parts
JunctionCall(items) ==
  LET r == junction(w, [i \in DOMAIN items |-> items[i].ref])
  IN /\ last.n = 0
     /\ \A i \in DOMAIN items : items[i].kind = "pin"
     /\ w' = r.s
     /\ last' = [op |-> "junction", n |-> 1, items |-> items, before |-> w,
                 threw |-> r.threw, result |-> <<>>]
     /\ UNCHANGED <<ctype, results, twin>>

\* Circuit(name, ...items) on the parts
CircuitCall(items) ==
  LET r == CircuitFlat(w, items, TRUE)
  IN /\ last.n = 0
     /\ w' = r.s
     /\ last' = [op |-> "Circuit", n |-> 1, items |-> items, before |-> w,
                 threw |-> r.threw, result |-> <<>>]
     /\ UNCHANGED <<ctype, results, twin>>

Next ==
  /\ MayBuild
  /\ \E items \in BuilderArgs :
       \/ SeriesCall(items)
       \/ ParallelCall(items)
       \/ JunctionCall(items)
       \/ CircuitCall(items)

Spec == Init /\ [][Next]_vars

\* ------------------------------------------------------------ Series, claims
Firsts(items) == {getTerminals(items[i]).first : i \in DOMAIN items}
Lasts(items) == {getTerminals(items[i]).last : i \in DOMAIN items}
Bound(p) == p # NoPin /\ w.pinNode[p] # NoNode
SameNode(p, q) == Bound(p) /\ Bound(q) /\ w.pinNode[p] = w.pinNode[q]
NodesMade == w.nodeCounter - last.before.nodeCounter

\* C1: Series over a non-empty list makes len - 1 nodes and leaves every
\* adjacent pair's out pin and in pin on one node.
C1_SeriesJoinsAdjacent ==
  (last.op = "Series" /\ ~last.threw) =>
     /\ NodesMade = Len(last.items) - 1
     /\ \A i \in 1..(Len(last.items) - 1) :
          SameNode(getTerminals(last.items[i]).last, getTerminals(last.items[i + 1]).first)

\* ---------------------------------------------------------- Parallel, claims
RailsHold ==
  /\ NodesMade = 2
  /\ \A i \in DOMAIN last.items :
       /\ w.pinNode[getTerminals(last.items[i]).first] = last.before.nodeCounter + 1
       /\ w.pinNode[getTerminals(last.items[i]).last] = last.before.nodeCounter + 2

\* C2, as claimed: Parallel over any non-empty list makes two rails and leaves
\* every item's in pin on the start rail and every out pin on the end rail.
C2_ParallelRailsAnyItems ==
  (last.op = "Parallel" /\ ~last.threw) => RailsHold

\* C2, amended: the same, for lists in which no pin is both some item's in pin
\* and some item's out pin.
C2_ParallelRails ==
  (last.op = "Parallel" /\ ~last.threw
     /\ Firsts(last.items) \cap Lasts(last.items) = {}) => RailsHold

\* C2, reached: a Parallel of MaxLen items, a nested result among them, whose
\* in pins and out pins are apart
C2_Witness ==
  /\ last.op = "Parallel" /\ ~last.threw
  /\ Firsts(last.items) \cap Lasts(last.items) = {}
  /\ Len(last.items) = MaxLen
  /\ \E i, j \in DOMAIN last.items :
       last.items[i].kind = "result" /\ last.items[j].kind = "component"
  /\ RailsHold

\* C3: in Series(A, Parallel(B1..Bn), C) the out pin of A is on the node of
\* every Bi's in pin, and the in pin of C on the node of every Bi's out pin.
C3_NestedParallelJoined ==
  (/\ last.op = "Series" /\ ~last.threw /\ Len(last.items) = 3
   /\ last.items[1].kind = "component"
   /\ last.items[2].kind = "result" /\ last.items[2].ref.firstPin[1] = 0
   /\ last.items[3].kind = "component"
   /\ last.items[1].ref # last.items[3].ref
   /\ {last.items[1].ref, last.items[3].ref} \cap Range(last.items[2].ref.components) = {})
  => \A b \in Range(last.items[2].ref.components) :
       /\ SameNode(P2(last.items[1].ref), P1(b))
       /\ SameNode(P1(last.items[3].ref), P2(b))

\* ------------------------------------------------ Circuit, flat form, called
\* the parts of a one-loop circuit: a source, two resistors, a ground
CircuitParts ==
  {<<"voltage_source", "resistor", "resistor", "ground">>,
   <<"current_source", "resistor", "resistor", "ground">>}

InitCircuit ==
  /\ ctype \in CircuitParts
  /\ w = Fresh
  /\ results = <<>>
  /\ last = NoCall
  /\ twin = <<>>

\* Circuit(name, {autoGround}, ...items) on the fresh parts; twin is what
\* Circuit(name, {autoGround}, [[...items]]) makes of the same parts
CircuitFlatCall(items, autoGround) ==
  LET r == CircuitFlat(w, items, autoGround)
  IN /\ w' = r.s
     /\ twin' = CircuitPaths(w, <<items>>, autoGround)
     /\ last' = [op |-> "CircuitFlat", n |-> 1, items |-> items,
                 autoGround |-> autoGround, before |-> w, threw |-> r.threw]
     /\ UNCHANGED <<ctype, results>>

NextCircuit ==
  /\ last.n = 0
  /\ \E items \in Lists(Leaves, MaxFlat), autoGround \in BOOLEAN :
       CircuitFlatCall(items, autoGround)

SpecCircuit == InitCircuit /\ [][NextCircuit]_vars

IsComponents(items) == \A i \in DOMAIN items : items[i].kind = "component"
Distinct(items) == \A i, j \in DOMAIN items : items[i] = items[j] => i = j
TypeAt(items, i) == ctype[items[i].ref]

\* a source, then k >= 1 two-terminal parts, then a ground, all distinct
IsLoop(items) ==
  /\ Len(items) >= 3 /\ IsComponents(items) /\ Distinct(items)
  /\ IsSource(items[1].ref)
  /\ TypeAt(items, Len(items)) = "ground"
  /\ \A i \in 2..(Len(items) - 1) : TypeAt(items, i) = "resistor"

LoopBuilt ==
  /\ ~last.threw
  /\ Len(w.components) = Len(last.items)
  /\ SameNode(<<last.items[1].ref, 1>>, P1(last.items[2].ref))
  /\ SameNode(<<last.items[1].ref, 2>>, <<last.items[Len(last.items)].ref, 1>>)

\* C4: Circuit(name, S, X1..Xk, G) with default options holds k + 2 components,
\* S.positive shares a node with X1's first pin, S.negative is on G's node.
C4_FlatLoopGrounded ==
  (last.op = "CircuitFlat" /\ last.autoGround /\ IsLoop(last.items)) => LoopBuilt

\* C4, reached: the loop with two parts between the source and the ground
C4_Witness ==
  /\ last.op = "CircuitFlat" /\ last.autoGround /\ IsLoop(last.items)
  /\ Len(last.items) = 4
  /\ LoopBuilt

\* two heaps bind the component pins into the same classes
SamePartition(f, g) ==
  \A p, q \in CompPins : (f[p] = f[q]) <=> (g[p] = g[q])

\* C7: for a chain of distinct fresh components the one-path form and the flat
\* form hold the same components in the same order, n - 1 nodes each, and the
\* same partition of pins into nodes.
C7_OnePathEqualsFlat ==
  (last.op = "CircuitFlat" /\ Len(last.items) >= 1
     /\ IsComponents(last.items) /\ Distinct(last.items))
  => /\ ~last.threw /\ ~twin.threw
     /\ w.components = twin.s.components
     /\ Len(w.nodes) = Len(last.items) - 1
     /\ Len(twin.s.nodes) = Len(last.items) - 1
     /\ SamePartition(w.pinNode, twin.s.pinNode)

\* ------------------------------------------ Circuit, multi-path form, called
\* a resistor and a transistor, and a sub-circuit built before the call
PathsParts == <<"resistor", "npn">>

SubCircuits ==
  {Series(Fresh, <<Comp(1), Comp(2)>>), Parallel(Fresh, <<Comp(1)>>)}

InitPaths ==
  /\ ctype = PathsParts
  /\ \E sub \in SubCircuits : w = sub.s /\ results = <<sub.result>>
  /\ last = NoCall
  /\ twin = <<>>

\* the transistor, its collector pin, the sub-circuit built beforehand
PathItems == {Comp(2), RawPin(<<2, 2>>), Nested(results[1])}

\* Circuit(name, paths) with default options
CircuitPathsCall(paths) ==
  LET r == CircuitPaths(w, paths, TRUE)
  IN /\ Len(paths) >= 1
     /\ w' = r.s
     /\ last' = [op |-> "CircuitPaths", n |-> 1, paths |-> paths,
                 before |-> w, threw |-> r.threw]
     /\ UNCHANGED <<ctype, results, twin>>

NextPaths ==
  /\ last.n = 0
  /\ \E paths \in Lists(Lists(PathItems, MaxPathLen), MaxPaths) :
       CircuitPathsCall(paths)

SpecPaths == InitPaths /\ [][NextPaths]_vars

\* C5: after the multi-path Circuit every adjacent pair of every path has its
\* out pin and its in pin on one node.
C5_PathPairsStayJoined ==
  (last.op = "CircuitPaths" /\ ~last.threw) =>
    \A k \in DOMAIN last.paths :
      \A i \in 1..(Len(last.paths[k]) - 1) :
        SameNode(getOutputPin(last.paths[k][i]), getInputPin(last.paths[k][i + 1]))

\* the components an element of a path touches
TouchedBy(item) ==
  IF item.kind = "component" THEN {item.ref}
  ELSE IF item.kind = "pin" THEN {Owner(item.ref)} \cap Comps
  ELSE Range(item.ref.components)
Touched(paths) ==
  UNION {UNION {TouchedBy(paths[k][i]) : i \in DOMAIN paths[k]} : k \in DOMAIN paths}
Occurrences(seq, x) == Cardinality({i \in DOMAIN seq : seq[i] = x})

\* C6: every component a path touches is registered exactly once.
C6_TouchedRegisteredOnce ==
  (last.op = "CircuitPaths" /\ ~last.threw) =>
    \A c \in Touched(last.paths) : Occurrences(w.components, c) = 1

Elements(paths) ==
  UNION {{paths[k][i] : i \in DOMAIN paths[k]} : k \in DOMAIN paths}

\* C6, reached: one component named by every path, as itself, through its
\* pin and inside a nested result
C6_Witness ==
  /\ last.op = "CircuitPaths" /\ ~last.threw
  /\ Len(last.paths) = MaxPaths
  /\ \E c \in Comps :
       /\ \A k \in DOMAIN last.paths : c \in Touched(<<last.paths[k]>>)
       /\ Comp(c) \in Elements(last.paths)
       /\ \E e \in Elements(last.paths) : e.kind = "pin" /\ Owner(e.ref) = c
       /\ \E e \in Elements(last.paths) :
            e.kind = "result" /\ c \in Range(e.ref.components)
       /\ Occurrences(w.components, c) = 1


\* ------------------------------------------- a Schematic built by hand, called
\* a source and two grounds, constructed and not yet registered
GroundParts ==
  {<<"voltage_source", "ground", "ground">>,
   <<"current_source", "ground", "ground">>}

InitGround ==
  /\ ctype \in GroundParts
  /\ w = NewSchematic(Fresh)
  /\ results = <<>>
  /\ last = NoCall
  /\ twin = <<>>

Nodes == 1..w.nodeCounter

\* schematic.addComponent(c), each part once
AddComponentCall(c) ==
  /\ c \notin Range(w.components)
  /\ w' = addComponent(w, c)
  /\ UNCHANGED <<ctype, results, last, twin>>

\* schematic.createNode()
CreateNodeCall ==
  /\ w' = createNode(w)
  /\ UNCHANGED <<ctype, results, last, twin>>

\* new Node(), known to no container
NewNodeCall ==
  /\ w' = NewNode(w)
  /\ UNCHANGED <<ctype, results, last, twin>>

\* schematic.connect(pin, node)
ConnectCall(p, n) ==
  /\ w' = connect(w, p, n)
  /\ UNCHANGED <<ctype, results, last, twin>>

\* pin.connectTo(node)
PinConnectToCall(p, n) ==
  /\ w' = connectTo(w, p, n)
  /\ UNCHANGED <<ctype, results, last, twin>>

GroundPass(op, connected, warnings) ==
  [op |-> op, n |-> last.n + 1, threw |-> FALSE, before |-> w,
   connected |-> connected, warnings |-> warnings,
   prevOp |-> last.op,
   prev |-> IF last.n = 0 THEN <<>>
            ELSE [before |-> last.before, connected |-> last.connected,
                  warnings |-> last.warnings]]

\* schematic.mergeGrounds()
MergeGroundsCall ==
  /\ w' = mergeGrounds(w)
  /\ last' = GroundPass("mergeGrounds", <<>>, <<>>)
  /\ UNCHANGED <<ctype, results, twin>>

\* schematic.autoConnectGrounds()
AutoConnectGroundsCall ==
  LET r == autoConnectGrounds(w)
  IN /\ w' = r.s
     /\ last' = GroundPass("autoConnectGrounds", r.connected, r.warnings)
     /\ UNCHANGED <<ctype, results, twin>>

\* the container is wired first; the ground passes then run back to back
NextGround ==
  \/ /\ last.n = 0
     /\ \/ \E c \in Comps : AddComponentCall(c)
        \/ w.nodeCounter < MaxNodes /\ CreateNodeCall
        \/ w.nodeCounter < MaxNodes /\ NewNodeCall
        \/ \E p \in CompPins, n \in Nodes : ConnectCall(p, n)
        \/ \E p \in CompPins, n \in Nodes : PinConnectToCall(p, n)
        \/ MergeGroundsCall
  \/ last.n < MaxCalls /\ AutoConnectGroundsCall

SpecGround == InitGround /\ [][NextGround]_vars

\* ------------------------------------------------------ mergeGrounds, claims
GndPin(g) == PinAt(g, 1)
GndNodes(s) == {s.pinNode[GndPin(g)] : g \in Range(groundComponents(s))}
RegisteredPins(s) == {p \in CompPins : Owner(p) \in Range(s.components)}

\* N >= 2 ground components on N distinct registered nodes
GroundsApart(s) ==
  /\ Len(groundComponents(s)) >= 2
  /\ \A g \in Range(groundComponents(s)) : isConnected(s, GndPin(g))
  /\ Cardinality(GndNodes(s)) = Len(groundComponents(s))
  /\ GndNodes(s) \subseteq Range(s.nodes)

MasterNode(s) == s.pinNode[GndPin(groundComponents(s)[1])]

Merged ==
  /\ Range(w.nodes) \cap GndNodes(last.before) = {MasterNode(last.before)}
  /\ Occurrences(w.nodes, MasterNode(last.before)) = 1
  /\ \A p \in RegisteredPins(last.before) :
       last.before.pinNode[p] \in GndNodes(last.before)
         => w.pinNode[p] = MasterNode(last.before)

\* C8: mergeGrounds on N >= 2 grounds bound to N distinct registered nodes
\* leaves of those nodes only the first ground's node registered, and every
\* registered component's pin that was on one of the others is on that node.
C8_MergeKeepsOneGroundNode ==
  (last.op = "mergeGrounds" /\ GroundsApart(last.before)) => Merged

\* C8, reached: the source had a pin on the second ground's node
C8_Witness ==
  /\ last.op = "mergeGrounds" /\ GroundsApart(last.before)
  /\ \E p \in RegisteredPins(last.before) :
       /\ IsSource(Owner(p))
       /\ last.before.pinNode[p] \in GndNodes(last.before)
       /\ last.before.pinNode[p] # MasterNode(last.before)
       /\ w.pinNode[p] = MasterNode(last.before)
  /\ Merged

\* ------------------------------------------------ autoConnectGrounds, claims
\* C9: a second autoConnectGrounds right after the first leaves every pin as
\* the first left it (connected or not, and on the same node) and returns the
\* same warnings.
C9_AutoConnectIdempotent ==
  (last.op = "autoConnectGrounds" /\ last.prevOp = "autoConnectGrounds")
  => /\ w.pinNode = last.before.pinNode
     /\ Range(last.warnings) = Range(last.prev.warnings)

\* C9, reached: the first pass merged two grounds and grounded the source
C9_Witness ==
  /\ last.op = "autoConnectGrounds" /\ last.prevOp = "autoConnectGrounds"
  /\ GroundsApart(last.prev.before)
  /\ last.prev.connected # <<>>
  /\ last.prev.before.pinNode # last.before.pinNode
  /\ w.pinNode = last.before.pinNode
  /\ last.warnings = last.prev.warnings

\* the pin named "negative" of a source
Negative(c) == CHOOSE p \in PinsOf(c) : PinName(p) = "negative"

\* the registered sources whose negative pin was unconnected before the pass
LooseSources ==
  {c \in Range(last.before.components) :
     IsSource(c) /\ ~isConnected(last.before, Negative(c))}

\* every loose source's negative pin is bound, to the node every ground
\* component's pin is bound to
Grounded ==
  \A c \in LooseSources :
     /\ isConnected(w, Negative(c))
     /\ \A g \in Range(groundComponents(w)) :
          w.pinNode[GndPin(g)] = w.pinNode[Negative(c)]

\* C10, as claimed: after autoConnectGrounds on a container with at least one
\* ground component every source whose negative pin was unconnected has it on
\* the ground node.
C10_SourcesGroundedAnyGround ==
  (last.op = "autoConnectGrounds" /\ Len(groundComponents(last.before)) >= 1)
  => Grounded

\* C10, amended: the same, when the first ground component's pin is bound to
\* a node before the pass.
C10_SourcesGrounded ==
  (/\ last.op = "autoConnectGrounds"
   /\ Len(groundComponents(last.before)) >= 1
   /\ isConnected(last.before, GndPin(groundComponents(last.before)[1])))
  => Grounded

\* C10, reached: a loose source next to two grounds
C10_Witness ==
  /\ last.op = "autoConnectGrounds"
  /\ Len(groundComponents(last.before)) = 2
  /\ isConnected(last.before, GndPin(groundComponents(last.before)[1]))
  /\ LooseSources # {}
  /\ Grounded

\* ------------------------------------------ the container's own operations
\* new Node('GND')
createGroundNode(s) ==
  [NewNode(s) EXCEPT !.named = @ \cup {s.nodeCounter + 1}]

\* Node.isGround(): the name is 'GND' (or '0', a name nothing here gives)
isGround(s, n) == n \in s.named

\* the groundNode accessor: [s, node]
groundNode(s) ==
  IF s.groundNode = NoNode
    THEN [s |-> [createGroundNode(s) EXCEPT !.groundNode = s.nodeCounter + 1,
                                            !.nodes = Append(@, s.nodeCounter + 1)],
          node |-> s.nodeCounter + 1]
  ELSE [s |-> s, node |-> s.groundNode]

InitContainer ==
  /\ ctype = <<"voltage_source", "ground", "ground">>
  /\ w = NewSchematic(Fresh)
  /\ results = <<>>
  /\ last = NoCall
  /\ twin = <<>>

\* const n = schematic.groundNode
GroundNodeCall ==
  /\ w' = groundNode(w).s
  /\ UNCHANGED <<ctype, results, last, twin>>

\* schematic.mergeGrounds(), anywhere in a run
MergeGroundsAgain ==
  /\ w' = mergeGrounds(w)
  /\ UNCHANGED <<ctype, results, last, twin>>

\* schematic.autoConnectGrounds(), anywhere in a run
AutoConnectGroundsAgain ==
  /\ w' = autoConnectGrounds(w).s
  /\ UNCHANGED <<ctype, results, last, twin>>

\* only operations of the container; createNode is capped
NextContainer ==
  \/ \E c \in Comps : AddComponentCall(c)
  \/ w.nodeCounter < MaxNodes /\ CreateNodeCall
  \/ \E p \in CompPins, n \in Nodes : ConnectCall(p, n)
  \/ GroundNodeCall
  \/ MergeGroundsAgain
  \/ AutoConnectGroundsAgain

SpecContainer == InitContainer /\ [][NextContainer]_vars

\* C11: every connected pin of every registered component is bound to a node
\* of the container's node collection.
C11_BoundPinsOnRegisteredNodes ==
  \A p \in RegisteredPins(w) :
     isConnected(w, p) => w.pinNode[p] \in Range(w.nodes)

\* C20: once the groundNode accessor has answered, every later access answers
\* that node, it is a ground node, and it is in the node collection once.
C20_GroundNodeKept ==
  w.groundNode # NoNode =>
     /\ groundNode(w).node = w.groundNode
     /\ isGround(w, groundNode(w).node)
     /\ Occurrences(groundNode(w).s.nodes, groundNode(w).node) = 1

\* ------------------------------------------------------------------ validate
\* the primary values a component is constructed with
Values == {-1, 0, 1}

\* Component.validate(), Resistor.validate(), Ground.validate(); value is the
\* component's params.value; a message is <<text, what it is about>>
componentValidate(c, value) ==
  IF ctype[c] = "ground" THEN <<>>
  ELSE (IF value < 0 THEN <<<<"Value cannot be negative", ctype[c]>>>> ELSE <<>>)
       \o (IF ctype[c] = "resistor" /\ value = 0
             THEN <<<<"Resistance cannot be zero (use a wire/short instead)", "Resistor">>>>
           ELSE <<>>)

\* the loop over this._components, which pushes every component's errors
RECURSIVE ComponentErrorsFirstOnly(_, _, _)
ComponentErrorsFirstOnly(cs, vals, i) ==
  IF i > Len(cs) THEN <<>>
  ELSE IF componentValidate(cs[i], vals[cs[i]]) # <<>>
    THEN componentValidate(cs[i], vals[cs[i]])
  ELSE ComponentErrorsFirstOnly(cs, vals, i + 1)
RECURSIVE ComponentErrors(_, _, _)
ComponentErrors(cs, vals, i) ==
  IF i > Len(cs) THEN <<>>
  ELSE componentValidate(cs[i], vals[cs[i]]) \o ComponentErrors(cs, vals, i + 1)

\* the pins of one component from pin i on that are in ps, in declaration order
RECURSIVE PinsFrom(_, _, _)
PinsFrom(c, i, ps) ==
  IF i > Len(PinNames(ctype[c])) THEN <<>>
  ELSE (IF <<c, i>> \in ps THEN <<<<c, i>>>> ELSE <<>>) \o PinsFrom(c, i + 1, ps)

\* the scan of getUnconnectedPins / getPinsAtNode as an array: components in
\* insertion order, pins in declaration order
RECURSIVE ScanPins(_, _, _)
ScanPins(cs, i, ps) ==
  IF i > Len(cs) THEN <<>>
  ELSE PinsFrom(cs[i], 1, ps) \o ScanPins(cs, i + 1, ps)

unconnectedPins(s) ==
  ScanPins(s.components, 1, {p \in CompPins : ~isConnected(s, p)})
pinsAtNode(s, n) ==
  ScanPins(s.components, 1, {p \in CompPins : isConnectedTo(s, p, n)})

RECURSIVE UnconnectedWarnings(_, _)
UnconnectedWarnings(ps, i) ==
  IF i > Len(ps) THEN <<>>
  ELSE <<<<"Unconnected pin", PinName(ps[i])>>>> \o UnconnectedWarnings(ps, i + 1)

RECURSIVE IsolatedWarnings(_, _)
IsolatedWarnings(s, i) ==
  IF i > Len(s.nodes) THEN <<>>
  ELSE (IF Len(pinsAtNode(s, s.nodes[i])) = 1 /\ ~isGround(s, s.nodes[i])
          THEN <<<<"Node has only one connection", ToString(s.nodes[i])>>>> ELSE <<>>)
       \o IsolatedWarnings(s, i + 1)

hasGround(s) ==
  \/ \E n \in Range(s.nodes) : isGround(s, n)
  \/ \E c \in Range(s.components) : ctype[c] = "ground"

NoComponents == <<"Circuit has no components", "">>

\* Schematic.validate(): [valid, errors, warnings]
validate(s, vals) ==
  LET errors == ComponentErrors(s.components, vals, 1)
                  \o (IF Len(s.components) = 0
                        THEN <<NoComponents>> ELSE <<>>)
      warnings == UnconnectedWarnings(unconnectedPins(s), 1)
                    \o IsolatedWarnings(s, 1)
                    \o (IF ~hasGround(s)
                          THEN <<<<"Circuit has no ground reference", "">>>> ELSE <<>>)
  IN [valid |-> Len(errors) = 0, errors |-> errors, warnings |-> warnings]

\* two resistors and a ground, in a container wired by hand
InitValidate ==
  /\ ctype = <<"resistor", "resistor", "ground">>
  /\ w = NewSchematic(Fresh)
  /\ results = <<>>
  /\ last = NoCall
  /\ twin = <<>>

\* schematic.validate(); params.value is read by validate() alone, so the
\* values the parts were constructed with are drawn where they are read
ValidateCall(vals) ==
  /\ last' = [op |-> "validate", n |-> 1, threw |-> FALSE, values |-> vals,
              result |-> validate(w, vals)]
  /\ UNCHANGED <<ctype, w, results, twin>>

NextValidate ==
  /\ last.n = 0
  /\ \/ \E c \in Comps : AddComponentCall(c)
     \/ w.nodeCounter < MaxNodes /\ CreateNodeCall
     \/ \E p \in CompPins, n \in Nodes : ConnectCall(p, n)
     \/ \E vals \in [Comps -> Values] : ValidateCall(vals)

SpecValidate == InitValidate /\ [][NextValidate]_vars

\* the rules a part breaks: a negative value (not a ground), a zero resistance
Broken(c, value) ==
  (IF ctype[c] # "ground" /\ value < 0 THEN 1 ELSE 0)
  + (IF ctype[c] = "resistor" /\ value = 0 THEN 1 ELSE 0)

RECURSIVE BrokenIn(_, _)
BrokenIn(cs, vals) ==
  IF cs = <<>> THEN 0 ELSE Broken(Head(cs), vals[Head(cs)]) + BrokenIn(Tail(cs), vals)

\* C17: validate() answers valid exactly when errors is empty; errors holds
\* every error of every registered component and the 'no components' error
\* exactly when the container is empty; the warnings do not bear on valid.
C17_ValidateCollectsAll ==
  last.op = "validate" =>
    LET r == last.result
        empty == Len(w.components) = 0
    IN /\ r.valid <=> (r.errors = <<>>)
       /\ Len(r.errors) = BrokenIn(w.components, last.values) + (IF empty THEN 1 ELSE 0)
       /\ \A c \in Range(w.components) :
            \A i \in DOMAIN componentValidate(c, last.values[c]) :
               componentValidate(c, last.values[c])[i] \in Range(r.errors)
       /\ (NoComponents \in Range(r.errors)) <=> empty
       /\ r.valid <=> (BrokenIn(w.components, last.values) = 0 /\ ~empty)

\* C17, reached: two parts in error, warnings present as well
C17_Witness ==
  /\ last.op = "validate"
  /\ Len(last.result.errors) >= 2
  /\ \E c, d \in Range(w.components) :
       /\ c # d
       /\ componentValidate(c, last.values[c]) # <<>>
       /\ componentValidate(d, last.values[d]) # <<>>
  /\ last.result.warnings # <<>>
  /\ ~last.result.valid

\* ------------------------------------------------------- empty calls, claims
\* C18: Series() and Parallel() of no items, junction() of fewer than two
\* pins and Circuit(name) of no connectables throw, return nothing and leave
\* every pin and the node counter as they were.
C18_EmptyCallsThrow ==
  /\ (last.op \in {"Series", "Parallel", "Circuit"} /\ Len(last.items) = 0)
       => (last.threw /\ last.result = <<>> /\ results = <<>> /\ w = last.before)
  /\ (last.op = "junction" /\ Len(last.items) < 2)
       => (last.threw /\ w = last.before)

\* C18, reached: junction of one pin threw
C18_Witness ==
  /\ last.op = "junction" /\ Len(last.items) = 1
  /\ last.threw /\ w = last.before

\* ------------------------------------------------- Circuit, options, called
\* what a caller passes before the connectables: nothing, {}, or an object
\* whose autoGround is true, false or undefined
Options == {"none", "empty", "true", "false", "undefined"}

\* options = { autoGround: true, ...args[0] }, then `if (options.autoGround)`
autoGroundOf(opt) == opt \in {"none", "empty", "true"}

\* Circuit(name, options?, ...items) and Circuit(name, options?, [items])
Circuit(s, opt, shape, items) ==
  IF shape = "flat" THEN CircuitFlat(s, items, autoGroundOf(opt))
  ELSE CircuitPaths(s, <<items>>, autoGroundOf(opt))

InitOptions ==
  /\ ctype = <<"voltage_source", "resistor", "ground">>
  /\ w = Fresh
  /\ results = <<>>
  /\ last = NoCall
  /\ twin = <<>>

CircuitWithCall(opt, shape, items) ==
  LET r == Circuit(w, opt, shape, items)
  IN /\ w' = r.s
     /\ last' = [op |-> "CircuitWith", n |-> 1, options |-> opt, shape |-> shape,
                 items |-> items, before |-> w, threw |-> r.threw]
     /\ UNCHANGED <<ctype, results, twin>>

NextOptions ==
  /\ last.n = 0
  /\ \E opt \in Options, shape \in {"flat", "paths"},
        items \in Lists({Comp(c) : c \in Comps}, MaxLen) :
       CircuitWithCall(opt, shape, items)

SpecOptions == InitOptions /\ [][NextOptions]_vars

\* the pin bindings the series / path wiring alone makes of the last call
Wired ==
  IF last.shape = "flat" THEN Series(last.before, last.items).s.pinNode
  ELSE connectPath(last.before, last.items).s.pinNode

\* the sources of the container whose negative pin the wiring left unbound
\* while it bound the first ground's pin
Groundable ==
  {c \in Range(w.components) :
     /\ IsSource(c) /\ Wired[Negative(c)] = NoNode
     /\ groundComponents(w) # <<>>
     /\ Wired[GndPin(groundComponents(w)[1])] # NoNode}

\* C19: unless the options object sets autoGround to false, Circuit in either
\* shape runs autoConnectGrounds (a source's loose negative pin ends on the
\* ground's node); when it is false the bindings are those of the wiring.
C19_AutoGroundUnlessFalse ==
  (last.op = "CircuitWith" /\ ~last.threw) =>
     /\ last.options # "false" =>
          \A c \in Groundable :
             w.pinNode[Negative(c)] = w.pinNode[GndPin(groundComponents(w)[1])]
     /\ last.options = "false" => w.pinNode = Wired

\* ------------------------------------------------- the document transform
\* Node.name of a node of this model: 'GND' or none
nodeName(s, n) == IF n \in s.named THEN <<"G", "N", "D">> ELSE Undefined

\* Node.isGround(), from the name
nameIsGround(name) == name \in {<<"G", "N", "D">>, <<"0">>}

\* the objects a container holds: component objects (objs) and node objects
\* (nodeObjs) by reference, the two collections as sequences of references
Graph(s) ==
  [objs |-> [c \in Comps |->
               [id |-> componentId(c), type |-> ctype[c], label |-> s.label[c],
                pins |-> [i \in DOMAIN PinNames(ctype[c]) |->
                            [id |-> pinId(PinsBefore(c) + i),
                             name |-> PinNames(ctype[c])[i],
                             node |-> s.pinNode[<<c, i>>]]]]],
   components |-> s.components,
   nodeObjs |-> [n \in 1..s.nodeCounter |->
                   [id |-> nodeId(n), name |-> nodeName(s, n)]],
   nodes |-> s.nodes]

\* pin.node?.id
pinNodeIdAlways(g, pin) ==
  IF pin.node # NoNode THEN g.nodeObjs[pin.node].id
  ELSE IF Len(g.nodes) > 0 THEN g.nodeObjs[g.nodes[1]].id ELSE Undefined
pinNodeId(g, pin) ==
  IF pin.node = NoNode THEN Undefined ELSE g.nodeObjs[pin.node].id

\* compileDslToDb: node records, then component records with their pin records
compileDslToDb(g) ==
  [nodes |-> [k \in DOMAIN g.nodes |->
                LET node == g.nodeObjs[g.nodes[k]]
                IN [id |-> node.id, name |-> node.name,
                    isGround |-> nameIsGround(node.name)]],
   components |-> [k \in DOMAIN g.components |->
                     LET component == g.objs[g.components[k]]
                     IN [id |-> component.id, type |-> component.type,
                         label |-> component.label,
                         pins |-> [i \in DOMAIN component.pins |->
                                     LET pin == component.pins[i]
                                     IN [id |-> pin.id, name |-> pin.name,
                                         nodeId |-> pinNodeId(g, pin)]]]]]

\* a ?? b
Coalesce(a, b) == IF a = Undefined THEN b ELSE a

\* a value that passes `if (x)`
Truthy(x) == x # Undefined /\ x # <<>>

\* Map.set, Map.has
Put(f, k, v) == [x \in DOMAIN f \cup {k} |-> IF x = k THEN v ELSE f[x]]
Has(f, k) == k \in DOMAIN f

\* the reserved words toSafeIdentifier escapes
reserved ==
  {<<"b", "r", "e", "a", "k">>,
   <<"c", "a", "s", "e">>,
   <<"c", "a", "t", "c", "h">>,
   <<"c", "l", "a", "s", "s">>,
   <<"c", "o", "n", "s", "t">>,
   <<"c", "o", "n", "t", "i", "n", "u", "e">>,
   <<"d", "e", "b", "u", "g", "g", "e", "r">>,
   <<"d", "e", "f", "a", "u", "l", "t">>,
   <<"d", "e", "l", "e", "t", "e">>,
   <<"d", "o">>,
   <<"e", "l", "s", "e">>,
   <<"e", "x", "p", "o", "r", "t">>,
   <<"e", "x", "t", "e", "n", "d", "s">>,
   <<"f", "a", "l", "s", "e">>,
   <<"f", "i", "n", "a", "l", "l", "y">>,
   <<"f", "o", "r">>,
   <<"f", "u", "n", "c", "t", "i", "o", "n">>,
   <<"i", "f">>,
   <<"i", "m", "p", "o", "r", "t">>,
   <<"i", "n">>,
   <<"i", "n", "s", "t", "a", "n", "c", "e", "o", "f">>,
   <<"n", "e", "w">>,
   <<"n", "u", "l", "l">>,
   <<"r", "e", "t", "u", "r", "n">>,
   <<"s", "u", "p", "e", "r">>,
   <<"s", "w", "i", "t", "c", "h">>,
   <<"t", "h", "i", "s">>,
   <<"t", "h", "r", "o", "w">>,
   <<"t", "r", "u", "e">>,
   <<"t", "r", "y">>,
   <<"t", "y", "p", "e", "o", "f">>,
   <<"v", "a", "r">>,
   <<"v", "o", "i", "d">>,
   <<"w", "h", "i", "l", "e">>,
   <<"w", "i", "t", "h">>,
   <<"y", "i", "e", "l", "d">>}

\* raw.replace(/[^A-Za-z0-9_]/g, '_')
sanitize(raw) ==
  [i \in DOMAIN raw |-> IF raw[i] \in Letters \cup Digit \cup {"_"} THEN raw[i] ELSE "_"]

\* the while loop of toSafeIdentifier: `${name}_${suffix}` until unused
RECURSIVE firstUnused(_, _, _)
firstUnused(name, suffix, used) ==
  LET candidate == name \o <<"_">> \o Digits(suffix)
  IN IF candidate \in used THEN firstUnused(name, suffix + 1, used) ELSE candidate

\* toSafeIdentifier: [name, used]
toSafeIdentifier(raw, fallback, used) ==
  LET sanitized == sanitize(raw)
      filled == IF Len(sanitized) > 0 THEN sanitized ELSE fallback
      lettered == IF Head(filled) \in Digit THEN fallback \o <<"_">> \o filled ELSE filled
      name == IF lettered \in reserved THEN lettered \o <<"_">> ELSE lettered
      candidate == IF name \in used THEN firstUnused(name, 2, used) ELSE name
  IN [name |-> candidate, used |-> used \cup {candidate}]

\* the case labels of buildComponentExpression that are tags: the members of
\* ComponentType it names that the enum has, and its three string literals;
\* ComponentType.BJT, .MOSFET, .OpAmp and .LogicGate are no members of the enum
Cases ==
  {"resistor", "capacitor", "inductor", "diode", "led", "voltage_source",
   "current_source", "ground", "power_rail", "logic_high", "logic_low", "clock"}

\* buildComponentExpression: the factory call, named by the variant it
\* constructs; the default branch throws
buildComponentExpression(component) ==
  IF component.type \in Cases
    THEN [threw |-> FALSE, factory |-> component.type]
  ELSE [threw |-> TRUE, factory |-> ""]

\* the name buildComponentExpression imports for the factory call; the
\* railName of a power rail's record is the label it was constructed with
factoryImport(component) ==
  CASE component.type = "resistor" -> <<"R">>
    [] component.type = "voltage_source" -> <<"D", "C">>
    [] component.type = "current_source" -> <<"I", "D", "C">>
    [] component.type = "ground" -> <<"G", "N", "D">>
    [] component.type = "power_rail" ->
         IF component.label = railName THEN railName
         ELSE <<"P", "o", "w", "e", "r", "R", "a", "i", "l">>
    [] OTHER -> Spell(component.type)

\* the first loop of reverseDbToDsl: [used, vars, threw]
RECURSIVE NameComponents(_, _, _)
NameComponents(acc, cs, i) ==
  IF i > Len(cs) \/ acc.threw THEN acc
  ELSE LET component == cs[i]
           baseName == Coalesce(component.label,
                                Coalesce(component.id, Spell(component.type)))
           r == toSafeIdentifier(baseName,
                                 <<"c", "o", "m", "p", "o", "n", "e", "n", "t">>,
                                 acc.used)
       IN NameComponents([used |-> r.used,
                          vars |-> Put(acc.vars, component.id, r.name),
                          threw |-> buildComponentExpression(component).threw],
                         cs, i + 1)

\* the second loop: [used, vars]
RECURSIVE NameNodes(_, _, _)
NameNodes(acc, ns, i) ==
  IF i > Len(ns) THEN acc
  ELSE LET node == ns[i]
           baseName == Coalesce(node.name, Coalesce(node.id, <<"n", "o", "d", "e">>))
           r == toSafeIdentifier(<<"n", "o", "d", "e", "_">> \o baseName,
                                 <<"n", "o", "d", "e">>, acc.used)
       IN NameNodes([used |-> r.used, vars |-> Put(acc.vars, node.id, r.name)],
                    ns, i + 1)

\* one statement of the generated source
Stmt(op, var) ==
  [op |-> op, var |-> var, factory |-> "", id |-> Undefined, label |-> Undefined,
   pinIds |-> <<>>, vars |-> <<>>, name |-> Undefined, pin |-> "", node |-> Undefined]

RECURSIVE Concat(_, _)
Concat(seqs, i) == IF i > Len(seqs) THEN <<>> ELSE seqs[i] \o Concat(seqs, i + 1)

\* const v = <factory call>; applyComponentIdentity(v, { id, label, pinIds })
ComponentLines(component, varName, preserveIds) ==
  LET pinIds == SelectSeq(component.pins, LAMBDA pin : Truthy(pin.id))
      decl == [Stmt("const", varName) EXCEPT
                 !.factory = buildComponentExpression(component).factory]
      identity == [Stmt("applyComponentIdentity", varName) EXCEPT
                     !.id = IF Truthy(component.id) THEN component.id ELSE Undefined,
                     !.label = IF Truthy(component.label) THEN component.label
                               ELSE Undefined,
                     !.pinIds = pinIds]
  IN IF preserveIds /\ (Truthy(component.id) \/ Truthy(component.label) \/ Len(pinIds) > 0)
       THEN <<decl, identity>>
     ELSE <<decl>>

\* const v = s.createNode(name ?? id); applyNodeIdentity(v, id)
NodeLines(node, varName, preserveIds) ==
  LET decl == [Stmt("createNode", varName) EXCEPT !.name = Coalesce(node.name, node.id)]
  IN IF preserveIds /\ Truthy(node.id)
       THEN <<decl, [Stmt("applyNodeIdentity", varName) EXCEPT !.id = node.id]>>
     ELSE <<decl>>

\* s.connect(v.pin(name), n) for every pin record with a nodeId that names a
\* node record; the others are skipped
ConnectLines(component, compVar, nodeVars) ==
  LET wired == SelectSeq(component.pins,
                         LAMBDA pin : Truthy(pin.nodeId) /\ Has(nodeVars, pin.nodeId))
  IN [i \in DOMAIN wired |->
        [Stmt("connect", compVar) EXCEPT !.pin = wired[i].name,
                                         !.node = nodeVars[wired[i].nodeId]]]

\* the names of the import line, each once, in the order they are added
Uniq(names) ==
  SelectSeq([i \in DOMAIN names |-> [at |-> i, name |-> names[i]]],
            LAMBDA e : \A j \in 1..(e.at - 1) : names[j] # e.name)
importsOf(db, preserveIds) ==
  LET all == <<<<"c", "r", "e", "a", "t", "e", "S", "c", "h", "e", "m", "a", "t", "i", "c">>>>
             \o (IF preserveIds
                   THEN <<<<"a", "p", "p", "l", "y", "C", "o", "m", "p", "o", "n", "e", "n", "t",
                            "I", "d", "e", "n", "t", "i", "t", "y">>,
                          <<"a", "p", "p", "l", "y", "N", "o", "d", "e",
                            "I", "d", "e", "n", "t", "i", "t", "y">>>>
                 ELSE <<>>)
             \o [k \in DOMAIN db.components |-> factoryImport(db.components[k])]
      kept == Uniq(all)
  IN [i \in DOMAIN kept |-> kept[i].name]

\* reverseDbToDsl: [threw, lines, componentVars, nodeVars]; the import line is
\* one statement per imported name, and the export line is left out
reverseDbToDsl(db, preserveIds) ==
  LET named == NameComponents([used |-> {}, vars |-> <<>>, threw |-> FALSE],
                              db.components, 1)
      componentVars == named.vars
      nodeVars == NameNodes([used |-> named.used, vars |-> <<>>], db.nodes, 1).vars
      varOf(k) == componentVars[db.components[k].id]
  IN IF named.threw
       THEN [threw |-> TRUE, lines |-> <<>>, componentVars |-> <<>>, nodeVars |-> <<>>]
     ELSE [threw |-> FALSE,
           lines |->
             [i \in DOMAIN importsOf(db, preserveIds) |->
                Stmt("import", importsOf(db, preserveIds)[i])]
             \o <<Stmt("createSchematic", <<"s">>)>>
             \o Concat([k \in DOMAIN db.components |->
                          ComponentLines(db.components[k], varOf(k), preserveIds)], 1)
             \o (IF Len(db.components) > 0
                   THEN <<[Stmt("addComponents", <<"s">>) EXCEPT
                             !.vars = [k \in DOMAIN db.components |-> varOf(k)]]>>
                 ELSE <<>>)
             \o Concat([k \in DOMAIN db.nodes |->
                          NodeLines(db.nodes[k], nodeVars[db.nodes[k].id], preserveIds)], 1)
             \o Concat([k \in DOMAIN db.components |->
                          ConnectLines(db.components[k], varOf(k), nodeVars)], 1),
           componentVars |-> componentVars, nodeVars |-> nodeVars]

\* ------------------------------------------- the generated source, executed
Declares(line) == line.op \in {"import", "createSchematic", "const", "createNode"}

\* a name declared twice is an early error: no statement runs
Redeclared(lines) ==
  \E i, j \in DOMAIN lines :
     i < j /\ Declares(lines[i]) /\ Declares(lines[j]) /\ lines[i].var = lines[j].var

\* the factory call of a const line: a new component of that variant, with a
\* fresh id, an automatic label, fresh pins
Construct(x, type) ==
  LET made == Len(x.objs)
      pinsMade == Len(Concat([k \in DOMAIN x.objs |-> x.objs[k].pins], 1))
      alike == {k \in DOMAIN x.objs :
                  getTypePrefix(x.objs[k].type) = getTypePrefix(type)}
  IN [id |-> Spell(type) \o <<"_">> \o Digits(made + 1), type |-> type,
      label |-> IF type = "power_rail" THEN railName
                ELSE getTypePrefix(type) \o Digits(Cardinality(alike) + 1),
      pins |-> [i \in DOMAIN PinNames(type) |->
                  [id |-> pinId(pinsMade + i), name |-> PinNames(type)[i],
                   node |-> NoNode]]]

\* applyComponentIdentity: id and label when given, pin ids by pin name
applyComponentIdentity(component, identity) ==
  LET targetId(pin) ==
        LET given == SelectSeq(identity.pinIds,
                               LAMBDA p : p.name = pin.name /\ Truthy(p.id))
        IN IF Len(given) > 0 THEN given[Len(given)].id ELSE pin.id
  IN [id |-> IF Truthy(identity.id) THEN identity.id ELSE component.id,
      type |-> component.type,
      label |-> IF Truthy(identity.label) THEN identity.label ELSE component.label,
      pins |-> [i \in DOMAIN component.pins |->
                  [component.pins[i] EXCEPT !.id = targetId(component.pins[i])]]]

\* applyNodeIdentity
applyNodeIdentity(node, id) == IF Truthy(id) THEN [node EXCEPT !.id = id] ELSE node

\* component.pin(name): the first pin of that name
pinNamed(component, name) ==
  CHOOSE i \in DOMAIN component.pins :
     /\ component.pins[i].name = name
     /\ \A j \in 1..(i - 1) : component.pins[j].name # name

\* one statement, run
Run(x, line) ==
  CASE line.op = "import" -> x
    [] line.op = "createSchematic" -> x
    [] line.op = "const" ->
         [x EXCEPT !.objs = Append(@, Construct(x, line.factory)),
                   !.env = Put(@, line.var, Len(x.objs) + 1)]
    [] line.op = "applyComponentIdentity" ->
         [x EXCEPT !.objs[x.env[line.var]] = applyComponentIdentity(@, line)]
    [] line.op = "addComponents" ->
         [x EXCEPT !.components = @ \o [k \in DOMAIN line.vars |-> x.env[line.vars[k]]]]
    [] line.op = "createNode" ->
         [x EXCEPT !.nodeObjs = Append(@, [id |-> nodeId(Len(x.nodeObjs) + 1),
                                           name |-> line.name]),
                   !.nodes = Append(@, Len(x.nodeObjs) + 1),
                   !.env = Put(@, line.var, Len(x.nodeObjs) + 1)]
    [] line.op = "applyNodeIdentity" ->
         [x EXCEPT !.nodeObjs[x.env[line.var]] = applyNodeIdentity(@, line.id)]
    [] line.op = "connect" ->
         LET c == x.env[line.var]
         IN [x EXCEPT !.objs[c].pins[pinNamed(x.objs[c], line.pin)].node =
                        x.env[line.node]]

RECURSIVE RunAll(_, _, _)
RunAll(x, lines, i) == IF i > Len(lines) THEN x ELSE RunAll(Run(x, lines[i]), lines, i + 1)

\* the module evaluated in a fresh process: [ran, g]
Execute(lines) ==
  LET empty == [env |-> <<>>, objs |-> <<>>, components |-> <<>>,
                nodeObjs |-> <<>>, nodes |-> <<>>]
  IN IF Redeclared(lines) THEN [ran |-> FALSE, g |-> empty]
     ELSE [ran |-> TRUE, g |-> RunAll(empty, lines, 1)]

\* ------------------------------------- the document transform, called
\* the parts of a container: a resistor, or two grounds, or a transistor
DbParts == {<<"resistor">>, <<"ground", "ground">>, <<"npn">>}

\* the labels given to the constructors: none, or `if` and `1k`, or `R-1`
\* and `R_1`
GivenLabels ==
  {<<Undefined, Undefined>>,
   <<<<"i", "f">>, <<"1", "k">>>>,
   <<<<"R", "-", "1">>, <<"R", "_", "1">>>>}

InitDb ==
  /\ ctype \in DbParts
  /\ \E given \in GivenLabels :
        w = [NewSchematic(Fresh) EXCEPT !.label = Labels([c \in Comps |-> given[c]])]
  /\ results = <<>>
  /\ last = NoCall
  /\ twin = <<>>

\* schematic.addComponent(c) of a component the container already holds
AddComponentAgainCall(c) ==
  /\ c \in Range(w.components)
  /\ w' = addComponent(w, c)
  /\ UNCHANGED <<ctype, results, last, twin>>

EmptyDb == [nodes |-> <<>>, components |-> <<>>]

\* compileDslToDb(s), reverseDbToDsl(db, { preserveIds }), the source run, and
\* compileDslToDb of the container it exports
ReverseCall(preserveIds) ==
  \E db \in {compileDslToDb(Graph(w))} :
  \E r \in {reverseDbToDsl(db, preserveIds)} :
  \E x \in {Execute(r.lines)} :
     /\ last' = [op |-> "reverse", n |-> 1, threw |-> r.threw,
                 preserveIds |-> preserveIds, db |-> db,
                 componentNames |-> IF r.threw THEN <<>>
                                    ELSE [k \in DOMAIN db.components |->
                                            r.componentVars[db.components[k].id]],
                 nodeNames |-> IF r.threw THEN <<>>
                               ELSE [k \in DOMAIN db.nodes |-> r.nodeVars[db.nodes[k].id]],
                 lines |-> [i \in DOMAIN r.lines |->
                              <<r.lines[i].op, r.lines[i].var, r.lines[i].pin>>],
                 ran |-> ~r.threw /\ x.ran,
                 rebuilt |-> Len(x.g.nodes),
                 again |-> IF ~r.threw /\ x.ran THEN compileDslToDb(x.g) ELSE EmptyDb]
     /\ UNCHANGED <<ctype, w, results, twin>>

\* the container is built by hand, its components wired once they are in it,
\* then compiled and reversed once
NextDb ==
  /\ last.n = 0
  /\ \/ \E c \in Comps : Len(w.components) < MaxInner /\ AddComponentCall(c)
     \/ \E c \in Comps : Len(w.components) < MaxInner /\ AddComponentAgainCall(c)
     \/ w.nodeCounter < MaxNodes /\ CreateNodeCall
     \/ w.nodeCounter < MaxNodes /\ NewNodeCall
     \/ w.nodeCounter < MaxNodes /\ GroundNodeCall
     \/ \E p \in RegisteredPins(w), n \in Nodes : ConnectCall(p, n)
     \/ \E p \in RegisteredPins(w), n \in Nodes \ Range(w.nodes) :
           PinConnectToCall(p, n)
     \/ \E preserveIds \in BOOLEAN : ReverseCall(preserveIds)

SpecDb == InitDb /\ [][NextDb]_vars

\* ------------------------------------------------ the round trip, claims
Reversed == last.op = "reverse"

\* C12: with identity preservation, the document compiled from the rebuilt
\* container equals the document the source was generated from.
C12_RoundTripEqual ==
  (Reversed /\ last.preserveIds /\ last.ran) => last.again = last.db

\* the pin records of a document, by place: <<component record, pin record>>
PinRecords(db) ==
  {<<k, i>> : k \in DOMAIN db.components, i \in 1..3} \cap
  UNION {{<<k, i>> : i \in DOMAIN db.components[k].pins} : k \in DOMAIN db.components}
NodeIdAt(db, r) == db.components[r[1]].pins[r[2]].nodeId
NodeIds(db) == {db.nodes[k].id : k \in DOMAIN db.nodes}

\* every nodeId of the document names one of its node records
Closed(db) ==
  \A r \in PinRecords(db) : NodeIdAt(db, r) # Undefined => NodeIdAt(db, r) \in NodeIds(db)

\* the pin records bound to a node, two by two
Joined(db) ==
  {<<q, r>> \in PinRecords(db) \X PinRecords(db) :
     NodeIdAt(db, q) # Undefined /\ NodeIdAt(db, q) = NodeIdAt(db, r)}

\* C13: with or without identity preservation, two pin records share a node in
\* the recompiled document exactly when they shared a nodeId in the first one.
C13_SamePinPartition ==
  (Reversed /\ last.ran) => Joined(last.again) = Joined(last.db)

\* the pin a pin record was compiled from
PinOf(r) == <<w.components[r[1]], r[2]>>

\* the s.connect lines of the generated source, as <<variable, pin name>>
ConnectedByLine ==
  {<<last.lines[i][2], last.lines[i][3]>> :
     i \in {j \in DOMAIN last.lines : last.lines[j][1] = "connect"}}
CreateNodeLines == {i \in DOMAIN last.lines : last.lines[i][1] = "createNode"}

\* C14: a pin record has a nodeId exactly when its pin is bound; the source
\* has one createNode line per node record and no s.connect line for a pin
\* record without nodeId; the rebuilt container has as many nodes as the
\* document has node records, and such a pin is unconnected in it.
C14_UnconnectedStaysUnconnected ==
  (Reversed /\ ~last.threw) =>
     /\ \A r \in PinRecords(last.db) :
           NodeIdAt(last.db, r) # Undefined <=> isConnected(w, PinOf(r))
     /\ Cardinality(CreateNodeLines) = Len(last.db.nodes)
     /\ \A r \in PinRecords(last.db) :
           NodeIdAt(last.db, r) = Undefined =>
              <<last.componentNames[r[1]], PinName(PinOf(r))>> \notin ConnectedByLine
     /\ last.ran =>
           /\ last.rebuilt = Len(last.db.nodes)
           /\ \A r \in PinRecords(last.db) :
                 NodeIdAt(last.db, r) = Undefined => NodeIdAt(last.again, r) = Undefined

\* a container with a node, a bound pin and an unconnected pin went round
C14_Witness ==
  /\ Reversed /\ last.ran
  /\ Len(last.db.nodes) > 0
  /\ \E q, r \in PinRecords(last.db) :
        /\ NodeIdAt(last.db, q) = Undefined
        /\ NodeIdAt(last.db, r) # Undefined
        /\ NodeIdAt(last.again, q) = Undefined
        /\ NodeIdAt(last.again, r) # Undefined

\* the variant tags a component of this model is constructed with
Variants ==
  {"resistor", "voltage_source", "current_source", "ground", "power_rail", "npn"}

ConstLines == {i \in DOMAIN last.lines : last.lines[i][1] = "const"}

\* C15: a document whose records all carry tags that compile produces is
\* reversed into one factory-call declaration per component record; a record
\* with a tag that no case names makes the transform throw, with no text.
C15_NeverDropsComponent ==
  Reversed =>
     /\ (\A k \in DOMAIN last.db.components : last.db.components[k].type \in Variants)
          => (~last.threw /\ Cardinality(ConstLines) = Len(last.db.components))
     /\ (\E k \in DOMAIN last.db.components : last.db.components[k].type \notin Cases)
          => (last.threw /\ last.lines = <<>>)

\* the names given to the records, component records first
Names == last.componentNames \o last.nodeNames

IsSafe(name) ==
  /\ \A i \in DOMAIN name : name[i] \in Letters \cup Digit \cup {"_"}
  /\ Len(name) > 0
  /\ Head(name) \notin Digit
  /\ name \notin reserved

\* C16: the names given to the component and node records of a document are
\* pairwise distinct identifiers: safe characters, no leading digit, no
\* reserved word.
C16_NamesDistinctAndSafe ==
  (Reversed /\ ~last.threw) =>
     /\ \A i, j \in DOMAIN Names : Names[i] = Names[j] => i = j
     /\ \A i \in DOMAIN Names : IsSafe(Names[i])

\* ------------------------------------------------------------- p1, p2, claims
SinglePin(c) == Len(PinNames(ctype[c])) = 1

\* the components a flat Circuit call was given as items
GivenComponents ==
  IF last.op = "CircuitFlat"
    THEN {last.items[i].ref : i \in {j \in DOMAIN last.items :
                                       last.items[j].kind = "component"}}
  ELSE {}

\* C21: the terminals resolved for a component (p1, p2) are pins of that
\* component; a one-pin variant answers both with its one pin; a source
\* answers p1 with its negative pin and p2 with its positive pin.
C21_SeriesTerminalsOwned ==
  \A c \in GivenComponents :
     LET t == getTerminals(Comp(c))
     IN /\ t.first \in PinsOf(c)
        /\ t.last \in PinsOf(c)
        /\ SinglePin(c) => t.first = t.last
        /\ IsSource(c) => (PinName(t.first) = "negative" /\ PinName(t.last) = "positive")

\* ---------------------------------------------------------- the pins, called
\* a resistor and a ground, their pins unconnected
InitPins ==
  /\ ctype = <<"resistor", "ground">>
  /\ w = Fresh
  /\ results = <<>>
  /\ last = NoCall
  /\ twin = <<>>

\* pin.connectTo(node)
ConnectToCall(p, n) ==
  /\ w' = connectTo(w, p, n)
  /\ last' = [op |-> "connectTo", n |-> 1, threw |-> FALSE, before |-> w,
              pin |-> p, node |-> n]
  /\ UNCHANGED <<ctype, results, twin>>

\* pin.disconnect()
DisconnectCall(p) ==
  /\ w' = disconnect(w, p)
  /\ last' = [op |-> "disconnect", n |-> 1, threw |-> FALSE, before |-> w,
              pin |-> p, node |-> NoNode]
  /\ UNCHANGED <<ctype, results, twin>>

NextPins ==
  \/ w.nodeCounter < MaxNodes /\ NewNodeCall
  \/ \E p \in CompPins, n \in Nodes : ConnectToCall(p, n)
  \/ \E p \in CompPins : DisconnectCall(p)

SpecPins == InitPins /\ [][NextPins]_vars

\* the bindings of the other pins are those before the call
OthersKept ==
  \A q \in CompPins \ {last.pin} : w.pinNode[q] = last.before.pinNode[q]

\* C22: connectTo(n) leaves the pin bound to n whatever it was bound to, a
\* second connectTo(n) changes nothing, disconnect() leaves the pin
\* unconnected; neither fails or touches another pin.
C22_PinBindsOneNode ==
  /\ last.op = "connectTo" =>
        /\ ~last.threw
        /\ isConnectedTo(w, last.pin, last.node)
        /\ connectTo(w, last.pin, last.node) = w
        /\ OthersKept
  /\ last.op = "disconnect" =>
        /\ ~last.threw
        /\ ~isConnected(w, last.pin)
        /\ OthersKept

\* a bound pin was bound to another node, and a bound pin was disconnected
C22_Witness ==
  \/ /\ last.op = "connectTo"
     /\ isConnected(last.before, last.pin)
     /\ ~isConnectedTo(last.before, last.pin, last.node)
     /\ \E q \in CompPins \ {last.pin} : isConnected(w, q)
  \/ /\ last.op = "disconnect"
     /\ isConnected(last.before, last.pin)
     /\ \E q \in CompPins \ {last.pin} : isConnected(w, q)

\* ------------------------------------------------ validate, warnings, called
\* a resistor and a ground in a container wired by hand, with named and
\* unnamed nodes, a component registered once or again
InitWarnings ==
  /\ ctype = <<"resistor", "ground">>
  /\ w = NewSchematic(Fresh)
  /\ results = <<>>
  /\ last = NoCall
  /\ twin = <<>>

NextWarnings ==
  /\ last.n = 0
  /\ \/ \E c \in Comps : Len(w.components) < MaxLen /\ AddComponentCall(c)
     \/ \E c \in Comps : Len(w.components) < MaxLen /\ AddComponentAgainCall(c)
     \/ w.nodeCounter < MaxNodes /\ CreateNodeCall
     \/ w.nodeCounter < MaxNodes /\ GroundNodeCall
     \/ \E p \in CompPins, n \in Nodes : ConnectCall(p, n)
     \/ \E vals \in [Comps -> {1}] : ValidateCall(vals)

SpecWarnings == InitWarnings /\ [][NextWarnings]_vars

\* the warnings of the last validate() that start with a given text
WarningsOf(text) ==
  {i \in DOMAIN last.result.warnings : last.result.warnings[i][1] = text}

\* the registered nodes that are no ground node and have one bound pin among
\* the pins of the registered components
LonelyNodes ==
  {n \in Range(w.nodes) :
     /\ ~isGround(w, n)
     /\ Cardinality({p \in RegisteredPins(w) : isConnectedTo(w, p, n)}) = 1}

\* C23: validate() warns once per unconnected pin of the registered
\* components, once per registered non-ground node with exactly one bound
\* pin, and about the missing ground reference exactly when the container has
\* no ground-named node and no ground component.
C23_WarningsExact ==
  last.op = "validate" =>
     /\ Cardinality(WarningsOf("Unconnected pin")) =
          Cardinality({p \in RegisteredPins(w) : ~isConnected(w, p)})
     /\ Cardinality(WarningsOf("Node has only one connection")) =
          Cardinality(LonelyNodes)
     /\ Cardinality(WarningsOf("Circuit has no ground reference")) =
          (IF hasGround(w) THEN 0 ELSE 1)

Once(cs) == \A i, j \in DOMAIN cs : cs[i] = cs[j] => i = j

\* ------------------------------------------------ connectPath, pairs, claims
\* the heap when the last call had connected the pairs among the first i
\* elements of path k, the paths before it done
PathState(k, i) ==
  LET done == PathsLoop([s |-> NewSchematic(last.before), threw |-> FALSE,
                         added |-> {}],
                        SubSeq(last.paths, 1, k - 1), 1)
  IN connectPath(done.s, SubSeq(last.paths[k], 1, i)).s

\* the adjacent pairs of the last call: <<path, place>>
Pairs ==
  IF last.op = "CircuitPaths" /\ ~last.threw
    THEN UNION {{<<k, i>> : i \in 1..(Len(last.paths[k]) - 1)} : k \in DOMAIN last.paths}
  ELSE {}
OutPin(pr) == getOutputPin(last.paths[pr[1]][pr[2]])
InPin(pr) == getInputPin(last.paths[pr[1]][pr[2] + 1])
Reuses(pr) ==
  \/ isConnected(PathState(pr[1], pr[2]), OutPin(pr))
  \/ isConnected(PathState(pr[1], pr[2]), InPin(pr))

\* C24: a pair gets a new node only if both its pins are unconnected at that
\* moment; otherwise no node is made and both pins are bound to the left
\* pin's node if it had one, else to the right pin's node.
C24_NodeReusedBeforeMinted ==
  \A pr \in Pairs :
     LET before == PathState(pr[1], pr[2])
         after == PathState(pr[1], pr[2] + 1)
         kept == IF isConnected(before, OutPin(pr)) THEN before.pinNode[OutPin(pr)]
                 ELSE before.pinNode[InPin(pr)]
     IN /\ after.nodeCounter > before.nodeCounter => ~Reuses(pr)
        /\ Reuses(pr) =>
              /\ after.nodeCounter = before.nodeCounter
              /\ isConnectedTo(after, OutPin(pr), kept)
              /\ isConnectedTo(after, InPin(pr), kept)

\* a later path met a pin that an earlier path had bound, and a pair of two
\* unconnected pins got a new node
C24_Witness ==
  /\ \E pr \in Pairs :
        /\ pr[1] > 1
        /\ ~isConnected(last.before, OutPin(pr)) /\ ~isConnected(last.before, InPin(pr))
        /\ Reuses(pr)
  /\ \E pr \in Pairs :
        ~Reuses(pr) /\ PathState(pr[1], pr[2] + 1).nodeCounter > last.before.nodeCounter

\* ------------------------------------------- autoConnectGrounds, its answer
NoGroundIn(s) == groundComponents(s) = <<>>

\* C25: with no ground component registered, autoConnectGrounds answers one
\* warning and no connected pin, and changes no pin binding and no node of the
\* node collection.
C25_NoGroundNoChange ==
  (last.op = "autoConnectGrounds" /\ NoGroundIn(last.before)) =>
     /\ ~last.threw
     /\ last.warnings = <<"No GND component found - cannot auto-connect source negatives">>
     /\ last.connected = <<>>
     /\ w.pinNode = last.before.pinNode
     /\ w.nodes = last.before.nodes

\* the call met a registered source whose negative pin was free, some nodes,
\* and no ground
C25_Witness ==
  /\ last.op = "autoConnectGrounds" /\ NoGroundIn(last.before)
  /\ last.before.nodes # <<>>
  /\ \E c \in Range(last.before.components) :
        IsSource(c) /\ ~isConnected(last.before, negativePin(c))
  /\ w = last.before

\* the pins the last call found unconnected and left connected
NewlyConnected == {p \in CompPins : ~isConnected(last.before, p) /\ isConnected(w, p)}

\* the pins named negative of the registered sources
SourceNegatives(s) ==
  {p \in RegisteredPins(s) : IsSource(Owner(p)) /\ PinName(p) = "negative"}

\* C26, amended: the connected list autoConnectGrounds returns holds exactly the negative
\* pins of registered sources that were unconnected before the call and are
\* connected after it; a pin of a further ground component that the merge
\* bound to the master node is not in it
C26_ListsSourceNegatives ==
  last.op = "autoConnectGrounds" =>
     Range(last.connected) = NewlyConnected \cap SourceNegatives(last.before)

\* C26, reached: the call bound a source's negative pin and, merging, a further ground's pin
C26_Witness ==
  /\ last.op = "autoConnectGrounds"
  /\ Range(last.connected) # {}
  /\ \E p \in NewlyConnected : IsGround(Owner(p))

\* C26, as claimed: the connected list autoConnectGrounds returns holds exactly the pins
\* that were unconnected before the call and are connected after it.
C26_ConnectedListExact ==
  last.op = "autoConnectGrounds" => Range(last.connected) = NewlyConnected

\* ------------------------------------------- the connect statements, claims
\* one <<"connect", variable, pin name>> for every pin record with a nodeId,
\* by component record, then by pin record
ConnectsAskedFor ==
  Concat([k \in DOMAIN last.db.components |->
            LET wired == SelectSeq(last.db.components[k].pins,
                                   LAMBDA pin : pin.nodeId # Undefined)
            IN [i \in DOMAIN wired |->
                  <<"connect", last.componentNames[k], wired[i].name>>]], 1)

\* C27: the generated source has one s.connect statement for every pin record
\* with a nodeId, in the order of the component records and of their pin
\* records, and none for a pin record without a nodeId.
C27_OneConnectPerBoundPin ==
  (Reversed /\ ~last.threw) =>
     SelectSeq(last.lines, LAMBDA l : l[1] = "connect") = ConnectsAskedFor

\* ------------------------------------------ mergeGrounds, the nodes it drops
GroundPassed == last.op \in {"mergeGrounds", "autoConnectGrounds"}

\* the nodes the last pass took out of the node collection
Dropped == Range(last.before.nodes) \ Range(w.nodes)

\* C28: mergeGrounds drops no node that a pin of a registered component is
\* still bound to, and a pass right after another leaves the node collection
\* as the first one left it.
C28_MergeDropsOnlyEmptyNodes ==
  GroundPassed =>
     /\ \A n \in Dropped : getPinsAtNode(w, n) = {}
     /\ last.prevOp \in {"mergeGrounds", "autoConnectGrounds"} => w.nodes = last.before.nodes

\* ------------------------------------------ Circuit, the owners of bound pins
\* the pins a call bound: connected in s and not on that node before the call
BoundBy(s) ==
  {p \in CompPins : isConnected(s, p) /\ s.pinNode[p] # last.before.pinNode[p]}
OwnersRegistered(s) == \A p \in BoundBy(s) : Owner(p) \in Range(s.components)

\* C29: every component that owns a pin bound by Circuit is registered in the
\* container it returns, in the flat form and in the multi-path form of the
\* same items, raw pins among the items included.
C29_OwnersOfBoundPinsRegistered ==
  last.op = "CircuitFlat" =>
     /\ ~last.threw => OwnersRegistered(w)
     /\ ~twin.threw => OwnersRegistered(twin.s)

\* --------------------------------------- the names of the module, called
\* a power rail, alone or next to a resistor
NamesParts == {<<"power_rail">>, <<"resistor", "power_rail">>}

\* the labels given to the constructors: none, or `s` to the first
NamesLabels == {<<Undefined, Undefined>>, <<<<"s">>, Undefined>>}

InitNames ==
  /\ ctype \in NamesParts
  /\ \E given \in NamesLabels :
        w = [NewSchematic(Fresh) EXCEPT !.label = Labels([c \in Comps |-> given[c]])]
  /\ results = <<>>
  /\ last = NoCall
  /\ twin = <<>>

SpecNames == InitNames /\ [][NextDb]_vars

\* the names the import line of the generated module binds
Imported == Range(importsOf(last.db, last.preserveIds))

\* C30: no name given to a component or node record is the container
\* variable s or a name the generated module imports.
C30_NamesClearOfModuleNames ==
  (Reversed /\ ~last.threw) =>
     \A i \in DOMAIN Names : Names[i] \notin Imported \cup {<<"s">>}

====
